---- MODULE Spec2Model ----
(***************************************************************************)
(* The C boundary of the KLL quantile sketch (libdatasketches_sys/wrapper) *)
(* over the sketch engine it wraps.  The boundary functions are translated *)
(* from wrapper.cpp; the float and the double instantiation have the same  *)
(* code, so one set of definitions named kll_sketch_... models both.       *)
(* The engine (datasketches kll_sketch<T>) is not among the source files;  *)
(* it is modelled from the specification (sections 3, 4 and 7).            *)
(*                                                                         *)
(* Items are small integers, fractions and ranks are exact rationals       *)
(* [num, den]; den = 0 is the result of the floating division 0.0 / 0.     *)
(* A level's buffer is kept as the sorted sequence of its items: every     *)
(* observable result depends only on the buffer's multiset.                *)
(***************************************************************************)
EXTENDS Integers, Sequences, FiniteSets, TLC

VARIABLES
    sk,         \* handle -> the sketch object it points to, or NoSketch
    stream,     \* handle -> every value observed by the sketch (history)
    compacted,  \* handle -> whether a compaction has contributed to it (history)
    last        \* the most recent boundary call and what it returned

vars == <<sk, stream, compacted, last>>

----------------------------------------------------------------------------
(* Bounds of the model *)

MaxSketches == 2
MaxValue == 2
MaxN == 9
MaxCallN == 2
MaxDeepN == 25
MaxNum == 3
MaxFractions == 2

(* Constants of the program *)

NULL == 0
NoItem == 0
MIN_K == 8
MAX_K == 65535
DEFAULT_K == 200
MIN_LEVEL_CAP == 8
SER_VER == 2

Handles == 1..MaxSketches
Values == 1..MaxValue
DeepValues == {1}
NoSketch == [absent |-> TRUE]

Max2(a, b) == IF a >= b THEN a ELSE b
Min2(a, b) == IF a <= b THEN a ELSE b

RECURSIVE Pow(_, _)
Pow(b, e) == IF e = 0 THEN 1 ELSE b * Pow(b, e - 1)

RECURSIVE SumSeq(_)
SumSeq(s) == IF s = <<>> THEN 0 ELSE Head(s) + SumSeq(Tail(s))

RECURSIVE Flatten(_)
Flatten(ss) == IF ss = <<>> THEN <<>> ELSE Head(ss) \o Flatten(Tail(ss))

----------------------------------------------------------------------------
(* Level Store *)

Insert(buf, v) ==
    LET below == SelectSeq(buf, LAMBDA x : x <= v)
        above == SelectSeq(buf, LAMBDA x : x > v)
    IN  below \o <<v>> \o above

RECURSIVE SortedMerge(_, _)
SortedMerge(a, b) ==
    IF b = <<>> THEN a ELSE SortedMerge(Insert(a, Head(b)), Tail(b))

EmptySketch(k) ==
    [k |-> k, n |-> 0, levels |-> << <<>> >>,
     min_item |-> NoItem, max_item |-> NoItem,
     is_level_zero_sorted |-> FALSE]

NumLevels(s) == Len(s.levels)

Weight(level) == Pow(2, level - 1)

LevelCapacity(k, numLevels, level) ==
    LET depth == numLevels - level
    IN  Max2(MIN_LEVEL_CAP, (k * Pow(2, depth)) \div Pow(3, depth))

OverCapacity(s, level) ==
    Len(s.levels[level]) > LevelCapacity(s.k, NumLevels(s), level)

ValidK(k) == k >= MIN_K /\ k <= MAX_K

----------------------------------------------------------------------------
(* Compaction Engine *)

Halve(buf, coin) ==
    LET off == IF coin THEN 0 ELSE 1
    IN  [i \in 1..(Len(buf) \div 2) |-> buf[2 * i - off]]

Compact(s, level, coin, leaveLast) ==
    LET buf == s.levels[level]
        odd == Len(buf) % 2 = 1
        left == IF ~odd THEN <<>>
                ELSE IF leaveLast THEN <<buf[Len(buf)]>> ELSE <<buf[1]>>
        rest == IF ~odd THEN buf
                ELSE IF leaveLast THEN SubSeq(buf, 1, Len(buf) - 1)
                     ELSE Tail(buf)
        promoted == Halve(rest, coin)
        grown == IF level = NumLevels(s) THEN Append(s.levels, <<>>) ELSE s.levels
    IN  [s EXCEPT
            !.levels = [grown EXCEPT ![level] = left,
                                     ![level + 1] = SortedMerge(@, promoted)],
            !.is_level_zero_sorted = IF level = 1 THEN TRUE ELSE @]

Coins == BOOLEAN \X BOOLEAN

(* Mutation of CompactFrom: one pass, the promotion is not followed upward. *)
CompactOnce(s, level) ==
    {Compact(s, level, cn[1], cn[2]) : cn \in Coins}

RECURSIVE CompactFrom(_, _)
CompactFrom(s, level) ==
    UNION { LET c == Compact(s, level, cn[1], cn[2])
            IN  IF OverCapacity(c, level + 1)
                THEN CompactFrom(c, level + 1)
                ELSE {c}
            : cn \in Coins }

LowestOver(s) ==
    CHOOSE l \in 1..NumLevels(s) :
        OverCapacity(s, l) /\ \A j \in 1..(l - 1) : ~OverCapacity(s, j)

RECURSIVE Recompact(_)
Recompact(s) ==
    IF \A l \in 1..NumLevels(s) : ~OverCapacity(s, l)
    THEN {s}
    ELSE UNION { Recompact(Compact(s, LowestOver(s), cn[1], cn[2])) : cn \in Coins }

----------------------------------------------------------------------------
(* Update Engine *)

update(s, v) ==
    LET s1 == [s EXCEPT
                 !.n = @ + 1,
                 !.levels[1] = Insert(@, v),
                 !.min_item = IF s.n = 0 THEN v ELSE Min2(@, v),
                 !.max_item = IF s.n = 0 THEN v ELSE Max2(@, v),
                 !.is_level_zero_sorted = FALSE]
    IN  IF OverCapacity(s1, 1) THEN CompactFrom(s1, 1) ELSE {s1}

(* Merge Engine *)

LevelOrEmpty(s, l) == IF l <= NumLevels(s) THEN s.levels[l] ELSE <<>>

merge(self, other) ==
    IF other.n = 0 THEN {self}
    ELSE LET top == Max2(NumLevels(self), NumLevels(other))
             joined ==
               [k |-> Min2(self.k, other.k),
                n |-> self.n + other.n,
                levels |-> [l \in 1..top |->
                              SortedMerge(LevelOrEmpty(self, l), LevelOrEmpty(other, l))],
                min_item |-> IF self.n = 0 THEN other.min_item
                             ELSE Min2(self.min_item, other.min_item),
                max_item |-> IF self.n = 0 THEN other.max_item
                             ELSE Max2(self.max_item, other.max_item),
                is_level_zero_sorted |->
                    IF other.levels[1] = <<>> THEN self.is_level_zero_sorted
                    ELSE FALSE]
         IN  Recompact(joined)

----------------------------------------------------------------------------
(* Query Engine.  A call into the engine either returns a value or throws. *)

Thrown(e) == [threw |-> TRUE, what |-> e]
Returned(v) == [threw |-> FALSE, val |-> v]

Frac(a, b) == [num |-> a, den |-> b]
IsNaN(f) == f.den = 0
InUnitRange(f) == ~IsNaN(f) /\ f.num >= 0 /\ f.num <= f.den

Retained(s) == Flatten(s.levels)
RetainedItems(s) == {Retained(s)[i] : i \in 1..Len(Retained(s))}

CountLE(buf, v) == Len(SelectSeq(buf, LAMBDA x : x <= v))

CumWeight(s, v) ==
    SumSeq([l \in 1..NumLevels(s) |-> Weight(l) * CountLE(s.levels[l], v)])

SetMin(S) == CHOOSE x \in S : \A y \in S : x <= y
SetMax(S) == CHOOSE x \in S : \A y \in S : x >= y

is_empty(s) == s.n = 0
get_k(s) == s.k
get_n(s) == s.n
get_num_retained(s) == Len(Retained(s))
is_estimation_mode(s) == NumLevels(s) > 1

get_min_item(s) ==
    IF is_empty(s) THEN Thrown("EmptySketchError") ELSE Returned(s.min_item)

get_max_item(s) ==
    IF is_empty(s) THEN Thrown("EmptySketchError") ELSE Returned(s.max_item)

get_rank(s, v) ==
    IF is_empty(s) THEN Thrown("EmptySketchError")
    ELSE Returned(Frac(CumWeight(s, v), s.n))

(* The smallest retained item whose cumulative weight reaches fraction * n. *)
QuantileItem(s, f) ==
    LET reach == {x \in RetainedItems(s) : CumWeight(s, x) * f.den >= f.num * s.n}
    IN  IF reach # {} THEN SetMin(reach) ELSE SetMax(RetainedItems(s))

(* The outcomes of get_quantile.  The engine is handed 0.0/0 by the evenly *)
(* spaced query with num = 1; what it does with a fraction that is not a   *)
(* number is not defined, so every outcome is possible.                   *)
get_quantile(s, f) ==
    IF is_empty(s) THEN {Thrown("EmptySketchError")}
    ELSE IF IsNaN(f)
         THEN {Thrown("RangeError")} \cup {Returned(x) : x \in RetainedItems(s)}
    ELSE IF ~InUnitRange(f) THEN {Thrown("RangeError")}
    ELSE {Returned(QuantileItem(s, f))}

construct(k) ==
    IF ValidK(k) THEN Returned(EmptySketch(k)) ELSE Thrown("ConstructionError")

----------------------------------------------------------------------------
(* Serialization Codec: version tag, k, n, flags, then for a sketch that   *)
(* is not empty min, max, the number of levels, the per-level item counts  *)
(* and the items in level order.                                          *)

FlagEmpty(s) == IF s.n = 0 THEN 1 ELSE 0
FlagSingle(s) == IF s.n = 1 THEN 2 ELSE 0
FlagSorted(s) == IF s.is_level_zero_sorted THEN 4 ELSE 0

serialize(s) ==
    <<SER_VER, s.k, s.n, FlagEmpty(s) + FlagSingle(s) + FlagSorted(s)>>
    \o (IF s.n = 0 THEN <<>>
        ELSE <<s.min_item, s.max_item, NumLevels(s)>>
             \o [l \in 1..NumLevels(s) |-> Len(s.levels[l])]
             \o Retained(s))

RECURSIVE SplitLevels(_, _)
SplitLevels(counts, items) ==
    IF counts = <<>> THEN <<>>
    ELSE <<SubSeq(items, 1, Head(counts))>>
         \o SplitLevels(Tail(counts), SubSeq(items, Head(counts) + 1, Len(items)))

Malformed == Thrown("DeserializationError")

deserialize(bytes, size) ==
    LET b == SubSeq(bytes, 1, size)
    IN  IF Len(b) < 4 THEN Malformed
        ELSE IF b[1] # SER_VER THEN Malformed
        ELSE IF ~ValidK(b[2]) THEN Malformed
        ELSE
        LET k == b[2]
            n == b[3]
            flags == b[4]
            sorted == (flags \div 4) % 2 = 1
        IN  IF (flags % 2 = 1) # (n = 0) THEN Malformed
            ELSE IF ((flags \div 2) % 2 = 1) # (n = 1) THEN Malformed
            ELSE IF n = 0
                 THEN IF Len(b) = 4
                      THEN Returned([EmptySketch(k) EXCEPT !.is_level_zero_sorted = sorted])
                      ELSE Malformed
            ELSE IF Len(b) < 7 THEN Malformed
            ELSE
            LET numLevels == b[7]
            IN  IF numLevels < 1 \/ Len(b) < 7 + numLevels THEN Malformed
                ELSE
                LET counts == SubSeq(b, 8, 7 + numLevels)
                    items == SubSeq(b, 8 + numLevels, Len(b))
                IN  IF SumSeq(counts) # Len(items) THEN Malformed
                    ELSE IF SumSeq([l \in 1..numLevels |-> Weight(l) * counts[l]]) # n
                         THEN Malformed
                    ELSE Returned([k |-> k, n |-> n,
                                   levels |-> SplitLevels(counts, items),
                                   min_item |-> b[5], max_item |-> b[6],
                                   is_level_zero_sorted |-> sorted])

----------------------------------------------------------------------------
(* The C boundary.  A call ends in one of four ways: "default" (a guard    *)
(* rejected the arguments), "ok", "caught" (the engine threw inside a      *)
(* try block) or "escaped" (the engine threw outside any try block and the *)
(* exception left the extern "C" function).                               *)

Live == {h \in Handles : sk[h] # NoSketch}
Free == Handles \ Live
HandleArgs == {NULL} \cup Live

NullPtr == [null |-> TRUE]
Ptr(mem) == [null |-> FALSE, mem |-> mem]

Zero == Frac(0, 1)

Default(v) == [outcome |-> "default", ret |-> v]

Direct(r) ==
    IF r.threw THEN [outcome |-> "escaped", what |-> r.what]
    ELSE [outcome |-> "ok", ret |-> r.val]

Guarded(r, dflt) ==
    IF r.threw THEN [outcome |-> "caught", ret |-> dflt]
    ELSE [outcome |-> "ok", ret |-> r.val]

kll_sketch_new == Guarded(construct(DEFAULT_K), NULL)

kll_sketch_new_with_k(k) == Guarded(construct(k), NULL)

kll_sketch_delete(h) ==
    IF h # NULL THEN [sk EXCEPT ![h] = NoSketch] ELSE sk

kll_sketch_update(h, v) ==
    IF h # NULL THEN {[sk EXCEPT ![h] = s] : s \in update(sk[h], v)} ELSE {sk}

(* Mutation of kll_sketch_merge: the two sketches exchanged in the call. *)
kll_sketch_merge_swapped(h, other) ==
    IF h # NULL /\ other # NULL
    THEN {[sk EXCEPT ![other] = s] : s \in merge(sk[other], sk[h])}
    ELSE {sk}

kll_sketch_merge(h, other) ==
    IF h # NULL /\ other # NULL
    THEN {[sk EXCEPT ![h] = s] : s \in merge(sk[h], sk[other])}
    ELSE {sk}

kll_sketch_is_empty(h) ==
    IF h # NULL THEN Direct(Returned(is_empty(sk[h]))) ELSE Default(TRUE)

kll_sketch_get_k(h) ==
    IF h # NULL THEN Direct(Returned(get_k(sk[h]))) ELSE Default(0)

(* Mutation of kll_sketch_get_n: the neighbouring accessor is called. *)
kll_sketch_get_n_retained(h) ==
    IF h # NULL THEN Direct(Returned(get_num_retained(sk[h]))) ELSE Default(0)

kll_sketch_get_n(h) ==
    IF h # NULL THEN Direct(Returned(get_n(sk[h]))) ELSE Default(0)

kll_sketch_get_num_retained(h) ==
    IF h # NULL THEN Direct(Returned(get_num_retained(sk[h]))) ELSE Default(0)

(* Mutation of kll_sketch_is_estimation_mode: the neighbouring predicate is called. *)
kll_sketch_is_estimation_mode_empty(h) ==
    IF h # NULL THEN Direct(Returned(is_empty(sk[h]))) ELSE Default(FALSE)

kll_sketch_is_estimation_mode(h) ==
    IF h # NULL THEN Direct(Returned(is_estimation_mode(sk[h]))) ELSE Default(FALSE)

kll_sketch_get_min_value(h) ==
    IF h # NULL THEN Direct(get_min_item(sk[h])) ELSE Default(0)

kll_sketch_get_max_value(h) ==
    IF h # NULL THEN Direct(get_max_item(sk[h])) ELSE Default(0)

kll_sketch_get_quantile(h, fraction) ==
    IF h # NULL THEN {Direct(r) : r \in get_quantile(sk[h], fraction)}
    ELSE {Default(0)}

(* Mutation of kll_sketch_get_rank: the null check inverted. *)
kll_sketch_get_rank_inverted(h, v) ==
    IF h = NULL THEN Direct(get_rank(sk[h], v)) ELSE Default(Zero)

kll_sketch_get_rank(h, v) ==
    IF h # NULL THEN Direct(get_rank(sk[h], v)) ELSE Default(Zero)

(* Mutation of kll_sketch_serialize: the size pointer is not checked. *)
kll_sketch_serialize_unchecked(h, size) ==
    IF h = NULL
    THEN [outcome |-> "default", ret |-> NullPtr, size |-> size]
    ELSE LET bytes == serialize(sk[h])
             n == Len(bytes)
         IN  [outcome |-> "ok",
              ret |-> Ptr([i \in 1..n |-> bytes[i]]),
              size |-> Ptr(n)]

(* size is the caller's size_t variable; it is assigned only on success. *)
kll_sketch_serialize(h, size) ==
    IF h = NULL \/ size.null
    THEN [outcome |-> "default", ret |-> NullPtr, size |-> size]
    ELSE LET bytes == serialize(sk[h])
             n == Len(bytes)
         IN  [outcome |-> "ok",
              ret |-> Ptr([i \in 1..n |-> bytes[i]]),
              size |-> Ptr(n)]

(* Mutation of kll_sketch_deserialize: one byte fewer is handed on. *)
kll_sketch_deserialize_short(data, size) ==
    IF data.null \/ size = 0 THEN Default(NULL)
    ELSE Guarded(deserialize(data.mem, size - 1), NULL)

kll_sketch_deserialize(data, size) ==
    IF data.null \/ size = 0 THEN Default(NULL)
    ELSE Guarded(deserialize(data.mem, size), NULL)

(* The loop of a batch query: results[i] is assigned after get_quantile    *)
(* returns, and the first throw ends the loop.  evaluated lists the        *)
(* fractions handed to get_quantile.                                      *)
RECURSIVE QuantileLoop(_, _, _, _)
QuantileLoop(s, fractions, i, acc) ==
    IF i > Len(fractions)
    THEN {[outcome |-> "ok", results |-> acc.results, evaluated |-> acc.evaluated]}
    ELSE UNION {
           IF r.threw
           THEN {[outcome |-> "caught", results |-> acc.results,
                  evaluated |-> Append(acc.evaluated, fractions[i])]}
           ELSE QuantileLoop(s, fractions, i + 1,
                    [results |-> [acc.results EXCEPT ![i] = r.val],
                     evaluated |-> Append(acc.evaluated, fractions[i])])
           : r \in get_quantile(s, fractions[i]) }

(* Mutation of kll_sketch_get_quantiles: the loop ends one element early. *)
kll_sketch_get_quantiles_short(h, fractions, num_fractions, results) ==
    IF h = NULL \/ fractions.null \/ results.null \/ num_fractions = 0
    THEN {[outcome |-> "default", results |-> results, evaluated |-> <<>>]}
    ELSE {[outcome |-> o.outcome, results |-> Ptr(o.results), evaluated |-> o.evaluated]
          : o \in QuantileLoop(sk[h], SubSeq(fractions.mem, 1, num_fractions - 1), 1,
                               [results |-> results.mem, evaluated |-> <<>>])}

kll_sketch_get_quantiles(h, fractions, num_fractions, results) ==
    IF h = NULL \/ fractions.null \/ results.null \/ num_fractions = 0
    THEN {[outcome |-> "default", results |-> results, evaluated |-> <<>>]}
    ELSE {[outcome |-> o.outcome, results |-> Ptr(o.results), evaluated |-> o.evaluated]
          : o \in QuantileLoop(sk[h], SubSeq(fractions.mem, 1, num_fractions), 1,
                               [results |-> results.mem, evaluated |-> <<>>])}

EvenFractions(num) == [j \in 1..num |-> Frac(j - 1, num - 1)]

kll_sketch_get_quantiles_evenly_spaced(h, num, results) ==
    IF h = NULL \/ results.null \/ num = 0
    THEN {[outcome |-> "default", results |-> results, evaluated |-> <<>>]}
    ELSE {[outcome |-> o.outcome, results |-> Ptr(o.results), evaluated |-> o.evaluated]
          : o \in QuantileLoop(sk[h], EvenFractions(num), 1,
                               [results |-> results.mem, evaluated |-> <<>>])}

----------------------------------------------------------------------------
(* The caller.  It passes NULL or a handle it got from the boundary and    *)
(* has not deleted.  A call whose exception escaped ends the program.      *)

Crashed == last.outcome = "escaped"

KArgs == {0, MIN_K - 1, MIN_K}
EngineKArgs == {MIN_K, MIN_K + 1}
RankArgs == 0..(MaxValue + 1)
FractionArgs == {Frac(-1, 2), Frac(0, 1), Frac(1, 2), Frac(1, 1), Frac(3, 2)}
BatchFractions == {Frac(0, 1), Frac(1, 1), Frac(3, 2)}
Untouched == NoItem

RECURSIVE SeqsUpTo(_, _)
SeqsUpTo(S, n) ==
    IF n = 0 THEN {<<>>}
    ELSE SeqsUpTo(S, n - 1) \cup
         {Append(q, x) : q \in {p \in SeqsUpTo(S, n - 1) : Len(p) = n - 1}, x \in S}

FractionArrays == SeqsUpTo(BatchFractions, MaxFractions) \ {<<>>}
ResultBuffer(n) == Ptr([i \in 1..n |-> Untouched])

RECURSIVE SumN(_)
SumN(hs) ==
    IF hs = {} THEN 0
    ELSE LET h == CHOOSE x \in hs : TRUE IN sk[h].n + SumN(hs \ {h})

Init ==
    /\ sk = [h \in Handles |-> NoSketch]
    /\ stream = [h \in Handles |-> <<>>]
    /\ compacted = [h \in Handles |-> FALSE]
    /\ last = [fn |-> "none", outcome |-> "ok"]

Allocate(fn, r, arg) ==
    IF r.outcome = "ok"
    THEN /\ Free # {}
         /\ LET h == SetMin(Free)
            IN  /\ sk' = [sk EXCEPT ![h] = r.ret]
                /\ last' = [fn |-> fn, arg |-> arg, outcome |-> "ok", ret |-> h]
    ELSE /\ sk' = sk
         /\ last' = [fn |-> fn, arg |-> arg, outcome |-> r.outcome, ret |-> r.ret]

New ==
    /\ ~Crashed
    /\ Allocate("new", kll_sketch_new, DEFAULT_K)
    /\ UNCHANGED <<stream, compacted>>

NewWithK(ks) ==
    /\ ~Crashed
    /\ \E k \in ks : Allocate("new_with_k", kll_sketch_new_with_k(k), k)
    /\ UNCHANGED <<stream, compacted>>

Delete ==
    /\ ~Crashed
    /\ \E h \in HandleArgs :
        /\ sk' = kll_sketch_delete(h)
        /\ stream' = IF h # NULL THEN [stream EXCEPT ![h] = <<>>] ELSE stream
        /\ compacted' = IF h # NULL THEN [compacted EXCEPT ![h] = FALSE] ELSE compacted
        /\ last' = [fn |-> "delete", h |-> h, outcome |-> IF h = NULL THEN "default" ELSE "ok"]

Update(bound, vals) ==
    /\ ~Crashed
    /\ \E h \in HandleArgs, v \in vals :
        /\ h # NULL => SumN(Live) < bound
        /\ sk' \in kll_sketch_update(h, v)
        /\ stream' = IF h # NULL THEN [stream EXCEPT ![h] = Insert(@, v)] ELSE stream
        /\ compacted' =
             IF h # NULL
             THEN [compacted EXCEPT ![h] =
                     @ \/ get_num_retained(sk'[h]) # get_num_retained(sk[h]) + 1]
             ELSE compacted
        /\ last' = [fn |-> "update", h |-> h, v |-> v,
                    outcome |-> IF h = NULL THEN "default" ELSE "ok"]

Merge(bound) ==
    /\ ~Crashed
    /\ \E h \in HandleArgs, other \in HandleArgs :
        /\ (h # NULL /\ other # NULL) => (h # other /\ sk[h].n + sk[other].n <= bound)
        /\ sk' \in kll_sketch_merge(h, other)
        /\ IF h # NULL /\ other # NULL
           THEN /\ stream' = [stream EXCEPT ![h] = SortedMerge(@, stream[other])]
                /\ compacted' =
                     [compacted EXCEPT ![h] =
                        @ \/ compacted[other]
                          \/ get_num_retained(sk'[h]) #
                               get_num_retained(sk[h]) + get_num_retained(sk[other])]
           ELSE UNCHANGED <<stream, compacted>>
        /\ last' = [fn |-> "merge", h |-> h, other |-> other,
                    hk |-> IF h # NULL THEN sk[h].k ELSE 0,
                    outcome |-> IF h = NULL \/ other = NULL THEN "default" ELSE "ok"]

Query(fn, h, arg, r) ==
    /\ last' = (IF r.outcome = "escaped"
                THEN [fn |-> fn, h |-> h, arg |-> arg, outcome |-> "escaped", what |-> r.what]
                ELSE [fn |-> fn, h |-> h, arg |-> arg, outcome |-> r.outcome, ret |-> r.ret])
    /\ UNCHANGED <<sk, stream, compacted>>

IsEmpty == ~Crashed /\ \E h \in HandleArgs : Query("is_empty", h, 0, kll_sketch_is_empty(h))

GetK == ~Crashed /\ \E h \in HandleArgs : Query("get_k", h, 0, kll_sketch_get_k(h))

GetN == ~Crashed /\ \E h \in HandleArgs : Query("get_n", h, 0, kll_sketch_get_n(h))

GetNumRetained ==
    ~Crashed /\ \E h \in HandleArgs :
        Query("get_num_retained", h, 0, kll_sketch_get_num_retained(h))

IsEstimationMode ==
    ~Crashed /\ \E h \in HandleArgs :
        Query("is_estimation_mode", h, 0, kll_sketch_is_estimation_mode(h))

GetMinValue ==
    ~Crashed /\ \E h \in HandleArgs : Query("get_min_value", h, 0, kll_sketch_get_min_value(h))

GetMaxValue ==
    ~Crashed /\ \E h \in HandleArgs : Query("get_max_value", h, 0, kll_sketch_get_max_value(h))

GetQuantile ==
    ~Crashed /\ \E h \in HandleArgs, f \in FractionArgs :
        \E r \in kll_sketch_get_quantile(h, f) : Query("get_quantile", h, f, r)

GetRank ==
    ~Crashed /\ \E h \in HandleArgs, v \in RankArgs :
        Query("get_rank", h, v, kll_sketch_get_rank(h, v))

Serialize ==
    /\ ~Crashed
    /\ \E h \in HandleArgs, size \in {NullPtr, Ptr(0)} :
        LET r == kll_sketch_serialize(h, size)
        IN  last' = [fn |-> "serialize", h |-> h, arg |-> size,
                     outcome |-> r.outcome, ret |-> r.ret, size |-> r.size]
    /\ UNCHANGED <<sk, stream, compacted>>

(* The bytes handed to deserialize: a serialized sketch, whole, cut short, *)
(* with another version tag, or with a count (level 0's, or n of an empty  *)
(* sketch) that no longer matches the rest.                               *)
Inputs(bytes) ==
    {[data |-> Ptr(bytes), size |-> Len(bytes)],
     [data |-> Ptr(bytes), size |-> 3],
     [data |-> Ptr(bytes), size |-> Len(bytes) - 1],
     [data |-> Ptr(bytes), size |-> 0],
     [data |-> NullPtr, size |-> Len(bytes)],
     [data |-> Ptr([bytes EXCEPT ![1] = SER_VER + 1]), size |-> Len(bytes)],
     [data |-> Ptr([bytes EXCEPT ![IF Len(bytes) > 7 THEN 8 ELSE 3] = @ + 1]),
      size |-> Len(bytes)]}

Deserialize ==
    /\ ~Crashed
    /\ \E src \in Live :
         \E in \in Inputs(serialize(sk[src])) :
            LET r == kll_sketch_deserialize(in.data, in.size)
            IN  /\ Allocate("deserialize", r, [src |-> src, in |-> in])
                /\ IF r.outcome = "ok"
                   THEN /\ stream' = [stream EXCEPT ![SetMin(Free)] = stream[src]]
                        /\ compacted' = [compacted EXCEPT ![SetMin(Free)] = compacted[src]]
                   ELSE UNCHANGED <<stream, compacted>>

Batch(fn, h, arg, r) ==
    /\ last' = [fn |-> fn, h |-> h, arg |-> arg, outcome |-> r.outcome,
                results |-> r.results, evaluated |-> r.evaluated]
    /\ UNCHANGED <<sk, stream, compacted>>

(* The arguments of a batch call: every fraction array with a result      *)
(* buffer of its length, and one array with each defect the guard rejects. *)
BatchArgs ==
    {[fractions |-> Ptr(fs), num |-> Len(fs), results |-> ResultBuffer(Len(fs))]
        : fs \in FractionArrays}
    \cup {[fractions |-> NullPtr, num |-> 2, results |-> ResultBuffer(2)],
          [fractions |-> Ptr(<<Frac(0, 1), Frac(1, 1)>>), num |-> 2, results |-> NullPtr],
          [fractions |-> Ptr(<<Frac(0, 1), Frac(1, 1)>>), num |-> 0,
           results |-> ResultBuffer(2)]}

GetQuantiles ==
    /\ ~Crashed
    /\ \E h \in HandleArgs, a \in BatchArgs :
         \E r \in kll_sketch_get_quantiles(h, a.fractions, a.num, a.results) :
            Batch("get_quantiles", h, a, r)

GetQuantilesEvenlySpaced ==
    /\ ~Crashed
    /\ \E h \in HandleArgs, num \in 0..MaxNum, nullRes \in BOOLEAN :
         LET results == IF nullRes THEN NullPtr ELSE ResultBuffer(num)
         IN  \E r \in kll_sketch_get_quantiles_evenly_spaced(h, num, results) :
                Batch("get_quantiles_evenly_spaced", h,
                      [num |-> num, results |-> results], r)

Next ==
    \/ New \/ NewWithK(KArgs) \/ Delete \/ Update(MaxCallN, Values) \/ Merge(MaxCallN)
    \/ IsEmpty \/ GetK \/ GetN \/ GetNumRetained \/ IsEstimationMode
    \/ GetMinValue \/ GetMaxValue \/ GetQuantile \/ GetRank
    \/ Serialize \/ Deserialize
    \/ GetQuantiles \/ GetQuantilesEvenlySpaced

Spec == Init /\ [][Next]_vars

NextEngine == NewWithK(EngineKArgs) \/ Delete \/ Update(MaxN, Values) \/ Merge(MaxN)

SpecEngine == Init /\ [][NextEngine]_vars

NextDeep ==
    NewWithK(EngineKArgs) \/ Delete \/ Update(MaxDeepN, DeepValues) \/ Merge(MaxDeepN)

SpecDeep == Init /\ [][NextDeep]_vars

----------------------------------------------------------------------------
(* Properties *)

NonEmpty == {h \in Live : sk[h].n > 0}

HandleFunctions ==
    {"delete", "update", "merge", "is_empty", "get_k", "get_n", "get_num_retained",
     "is_estimation_mode", "get_min_value", "get_max_value", "get_quantile",
     "get_rank", "serialize", "get_quantiles", "get_quantiles_evenly_spaced"}

(* C1: every call of the C surface that meets an engine failure ends with  *)
(* a default value and no exception leaves the boundary function: no call  *)
(* ends "escaped", and a failed call returns its default.                  *)
C1_NoExceptionCrossesBoundary ==
    /\ last.outcome # "escaped"
    /\ (last.outcome = "caught" /\ last.fn \in {"new_with_k", "deserialize"})
          => last.ret = NULL

(* C2: a boundary function called with a null handle (merge: either handle *)
(* null; serialize: null handle or null size pointer) returns its default, *)
(* changes no sketch and no output buffer, and reads no sketch.            *)
C2_NullHandleDefaults ==
    /\ kll_sketch_is_empty(NULL) = Default(TRUE)
    /\ kll_sketch_get_k(NULL) = Default(0)
    /\ kll_sketch_get_n(NULL) = Default(0)
    /\ kll_sketch_get_num_retained(NULL) = Default(0)
    /\ kll_sketch_is_estimation_mode(NULL) = Default(FALSE)
    /\ kll_sketch_get_min_value(NULL) = Default(0)
    /\ kll_sketch_get_max_value(NULL) = Default(0)
    /\ \A f \in FractionArgs : kll_sketch_get_quantile(NULL, f) = {Default(0)}
    /\ \A v \in RankArgs : kll_sketch_get_rank(NULL, v) = Default(Zero)
    /\ \A size \in {NullPtr, Ptr(0)} :
          kll_sketch_serialize(NULL, size)
             = [outcome |-> "default", ret |-> NullPtr, size |-> size]
    /\ \A h \in Live :
          kll_sketch_serialize(h, NullPtr)
             = [outcome |-> "default", ret |-> NullPtr, size |-> NullPtr]
    /\ kll_sketch_delete(NULL) = sk
    /\ \A v \in Values : kll_sketch_update(NULL, v) = {sk}
    /\ \A h \in HandleArgs :
          kll_sketch_merge(NULL, h) = {sk} /\ kll_sketch_merge(h, NULL) = {sk}
    /\ \A a \in BatchArgs :
          kll_sketch_get_quantiles(NULL, a.fractions, a.num, a.results)
             = {[outcome |-> "default", results |-> a.results, evaluated |-> <<>>]}
    /\ \A num \in 0..MaxNum : \A r \in {NullPtr, ResultBuffer(num)} :
          kll_sketch_get_quantiles_evenly_spaced(NULL, num, r)
             = {[outcome |-> "default", results |-> r, evaluated |-> <<>>]}
    /\ (last.fn \in HandleFunctions /\ last.h = NULL) => last.outcome = "default"
    /\ (last.fn = "merge" /\ last.other = NULL) => last.outcome = "default"

(* C2 witness: merge was called on a sketch holding items with a null      *)
(* second handle.                                                         *)
C2_Witness ==
    /\ last.fn = "merge" /\ last.h # NULL /\ last.other = NULL
    /\ sk[last.h].n > 0
    /\ last.outcome = "default"

(* C3: get_quantiles_evenly_spaced never evaluates a quantile at the       *)
(* undefined fraction 0/0: num = 0 and num = 1 write no result or a        *)
(* defined one, and for num >= 2 results[i] is get_quantile(i/(num-1)).    *)
C3_EvenlySpacedNeedsTwoPoints ==
    (last.fn = "get_quantiles_evenly_spaced" /\ last.outcome # "default") =>
        /\ \A i \in 1..Len(last.evaluated) : ~IsNaN(last.evaluated[i])
        /\ (last.arg.num >= 2 /\ last.outcome = "ok") =>
              \A i \in 1..last.arg.num :
                 Returned(last.results.mem[i])
                    \in get_quantile(sk[last.h], Frac(i - 1, last.arg.num - 1))

(* C9: the batch query is the single query repeated in order: results[i]   *)
(* holds the value of get_quantile(fractions[i]) for every i before the    *)
(* first failing call, the entries from there on are left as they were,    *)
(* and the batch fails exactly when a single call fails.                   *)
SingleCall(h, f) == CHOOSE r \in kll_sketch_get_quantile(h, f) : TRUE

FirstFailure(h, fs) ==
    LET failing == {i \in 1..Len(fs) : SingleCall(h, fs[i]).outcome # "ok"}
    IN  IF failing = {} THEN Len(fs) + 1 ELSE SetMin(failing)

----------------------------------------------------------------------------
(* Properties of the engine behind the boundary *)

Elements(buf) == {buf[i] : i \in 1..Len(buf)}

ExactRank(observed, v) == Frac(CountLE(observed, v), Len(observed))

ExactQuantile(observed, f) ==
    SetMin({x \in Elements(observed) :
               CountLE(observed, x) * f.den >= f.num * Len(observed)})

SameRank(a, b) == a.num * b.den = b.num * a.den
RankLE(a, b) == a.num * b.den <= b.num * a.den

Ranks(s) == [v \in RankArgs |-> get_rank(s, v)]
Quantiles(s) == [f \in FractionArgs |-> get_quantile(s, f)]

C5_RoundTrip ==
    \A h \in Live :
        LET out == kll_sketch_serialize(h, Ptr(0))
        IN  /\ out.outcome = "ok"
            /\ ~out.ret.null
            /\ LET back == kll_sketch_deserialize(out.ret, out.size.mem)
                   d == back.ret
               IN  /\ back.outcome = "ok"
                   /\ get_k(d) = get_k(sk[h])
                   /\ get_n(d) = get_n(sk[h])
                   /\ get_min_item(d) = get_min_item(sk[h])
                   /\ get_max_item(d) = get_max_item(sk[h])
                   /\ get_num_retained(d) = get_num_retained(sk[h])
                   /\ Ranks(d) = Ranks(sk[h])
                   /\ Quantiles(d) = Quantiles(sk[h])
                   /\ serialize(d) = out.ret.mem

(* C5 witness: a compacted sketch with items on two levels is encoded. *)
C5_Witness ==
    \E h \in Live :
        /\ NumLevels(sk[h]) >= 2
        /\ sk[h].levels[1] # <<>> /\ sk[h].levels[2] # <<>>
        /\ kll_sketch_serialize(h, Ptr(0)).size.mem > 8

(* C6: after every update and merge each level holds at most its capacity. *)
C6_LevelsWithinCapacity ==
    \A h \in Live :
        \A l \in 1..NumLevels(sk[h]) :
            Len(sk[h].levels[l]) <= LevelCapacity(sk[h].k, NumLevels(sk[h]), l)

(* C6 witness: an update has compacted level 0 and, the promotion having   *)
(* overfilled the next level, compacted that level too.                    *)
C6_Witness ==
    /\ last.fn = "update" /\ last.h # NULL
    /\ sk[last.h].is_level_zero_sorted
    /\ NumLevels(sk[last.h]) >= 3
    /\ Len(sk[last.h].levels[2]) <= 1
    /\ sk[last.h].levels[3] # <<>>

(* C7: get_n is the number of updates of all merged streams and the sum of *)
(* the levels' item counts times their weights.                            *)
C7_CountIsWeightedSum ==
    \A h \in Live :
        /\ kll_sketch_get_n(h) = [outcome |-> "ok", ret |-> Len(stream[h])]
        /\ kll_sketch_get_n(h).ret =
              SumSeq([l \in 1..NumLevels(sk[h]) |-> Len(sk[h].levels[l]) * Weight(l)])

(* C7 witness: a compaction of an odd-sized level left one item behind and *)
(* a merge has contributed to the sketch.                                  *)
C7_Witness ==
    /\ last.fn = "merge" /\ last.outcome = "ok"
    /\ NumLevels(sk[last.h]) >= 2
    /\ Len(sk[last.h].levels[1]) = 1
    /\ get_num_retained(sk[last.h]) < sk[last.h].n

(* C8: merging with an empty sketch.  Into S: S keeps n, min, max,          *)
(* num_retained and every rank and quantile.  S into an empty sketch: the   *)
(* result has S's n, min and max, and S's ranks and quantiles (for every k  *)
(* when anyK, else when the empty sketch's k is at least S's).  The sketch  *)
(* passed as other is never changed.                                       *)
MergeWithEmpty(anyK) ==
    \A h \in Live : \A o \in Live \ {h} :
        \A post \in kll_sketch_merge(h, o) :
            /\ post[o] = sk[o]
            /\ \A x \in Handles \ {h} : post[x] = sk[x]
            /\ sk[o].n = 0 =>
                  /\ get_n(post[h]) = get_n(sk[h])
                  /\ get_min_item(post[h]) = get_min_item(sk[h])
                  /\ get_max_item(post[h]) = get_max_item(sk[h])
                  /\ get_num_retained(post[h]) = get_num_retained(sk[h])
                  /\ Ranks(post[h]) = Ranks(sk[h])
                  /\ Quantiles(post[h]) = Quantiles(sk[h])
            /\ sk[h].n = 0 =>
                  /\ get_n(post[h]) = get_n(sk[o])
                  /\ get_min_item(post[h]) = get_min_item(sk[o])
                  /\ get_max_item(post[h]) = get_max_item(sk[o])
                  /\ (anyK \/ sk[h].k >= sk[o].k) =>
                        /\ Ranks(post[h]) = Ranks(sk[o])
                        /\ Quantiles(post[h]) = Quantiles(sk[o])

C10_State ==
    /\ kll_sketch_is_estimation_mode(NULL) = Default(FALSE)
    /\ \A h \in Live :
         LET est == kll_sketch_is_estimation_mode(h)
         IN  /\ est = [outcome |-> "ok", ret |-> compacted[h]]
             /\ ~est.ret =>
                  /\ kll_sketch_get_num_retained(h).ret = kll_sketch_get_n(h).ret
                  /\ sk[h].n > 0 =>
                       /\ \A v \in RankArgs :
                            SameRank(kll_sketch_get_rank(h, v).ret, ExactRank(stream[h], v))
                       /\ \A f \in {g \in FractionArgs : InUnitRange(g)} :
                            kll_sketch_get_quantile(h, f)
                               = {[outcome |-> "ok", ret |-> ExactQuantile(stream[h], f)]}

C10_Step ==
    \A h \in Handles :
        (sk[h] # NoSketch /\ sk'[h] # NoSketch /\ is_estimation_mode(sk[h]))
            => is_estimation_mode(sk'[h])

====
